---- MODULE Spec2Model ----
(***************************************************************************)
(* Items API (post-apps/items-api/app.ts): a Lambda handler that routes on *)
(* the HTTP method, validates a create body or a fetch path id, calls the  *)
(* DynamoDB document client once (PutCommand / GetCommand) and maps the    *)
(* result onto a status code and a JSON body.                              *)
(*                                                                         *)
(* Strings that the code inspects character by character (ids, object      *)
(* keys, timestamps) are sequences of one-character strings.  A raw        *)
(* request body is a sequence of JSON tokens; JSON.parse is the recursive  *)
(* descent parser ParseValue over those tokens.  JavaScript values are     *)
(* tagged records:                                                         *)
(*   [t |-> "null"]  [t |-> "bool", b]  [t |-> "num", n]  [t |-> "str", s] *)
(*   [t |-> "arr", a, x]   (a: the elements, x: expando properties)        *)
(*   [t |-> "obj", o]      (o: function from own keys to values)           *)
(***************************************************************************)
EXTENDS Integers, Sequences, FiniteSets, TLC

VARIABLES inv, store, now, uuidCount, callCount

vars == <<inv, store, now, uuidCount, callCount>>

(***************************************************************************)
(* Bounds of the model.                                                    *)
(***************************************************************************)
MaxInvocations == 3
MaxClock == 1

(***************************************************************************)
(* Program constants.                                                      *)
(***************************************************************************)
OK == 200
CREATED == 201
BAD_REQUEST == 400
NOT_FOUND == 404
METHOD_NOT_ALLOWED == 405
INTERNAL_SERVER_ERROR == 500
SERVICE_UNAVAILABLE == 503
MAX_ID_LENGTH == 255

(***************************************************************************)
(* JavaScript / JSON values.                                               *)
(***************************************************************************)
EmptyProps == << >>
UNDEFINED == [t |-> "undefined"]
JNull == [t |-> "null"]
JBool(b) == [t |-> "bool", b |-> b]
JNum(n) == [t |-> "num", n |-> n]
JStr(s) == [t |-> "str", s |-> s]
JArr(a) == [t |-> "arr", a |-> a, x |-> EmptyProps]
JObj(o) == [t |-> "obj", o |-> o]

K_id == <<"i", "d">>
K_createdAt == <<"c", "r", "e", "a", "t", "e", "d", "A", "t">>
K_name == <<"n", "a", "m", "e">>
K_price == <<"p", "r", "i", "c", "e">>
K_error == <<"e", "r", "r", "o", "r">>
K_statusCode == <<"s", "t", "a", "t", "u", "s", "C", "o", "d", "e">>
K_timestamp == <<"t", "i", "m", "e", "s", "t", "a", "m", "p">>

\* String.prototype.trim: strips leading and trailing white space.
WhiteSpace == {" ", "\t", "\n"}

\* The positions of s that hold something other than white space.
Solid(s) == {n \in 1..Len(s) : s[n] \notin WhiteSpace}

TrimStart(s) ==
    IF Solid(s) = {} THEN << >>
    ELSE SubSeq(s, CHOOSE n \in Solid(s) : \A m \in Solid(s) : n <= m, Len(s))

TrimEnd(s) ==
    IF Solid(s) = {} THEN << >>
    ELSE SubSeq(s, 1, CHOOSE n \in Solid(s) : \A m \in Solid(s) : m <= n)

Trim(s) == TrimEnd(TrimStart(s))

\* typeof v === 'string'
IsString(v) == v.t = "str"

\* The value of the property access v[key]; UNDEFINED when v has no such
\* property (own or inherited).
GetProp(v, key) ==
    CASE v.t = "obj" -> IF key \in DOMAIN v.o THEN v.o[key] ELSE UNDEFINED
      [] v.t = "arr" -> IF key \in DOMAIN v.x THEN v.x[key] ELSE UNDEFINED
      [] OTHER -> UNDEFINED

\* Whether the strict-mode assignment v[key] = w succeeds: it throws a
\* TypeError on a primitive.
CanSetProp(v) == v.t \in {"obj", "arr"}

Extend(f, key, w) == [k \in DOMAIN f \cup {key} |-> IF k = key THEN w ELSE f[k]]

SetProp(v, key, w) ==
    IF v.t = "obj"
    THEN [v EXCEPT !.o = Extend(v.o, key, w)]
    ELSE [v EXCEPT !.x = Extend(v.x, key, w)]

\* Object.keys(v).length for a value other than null and undefined.
OwnKeyCount(v) ==
    CASE v.t = "obj" -> Cardinality(DOMAIN v.o)
      [] v.t = "arr" -> Len(v.a) + Cardinality(DOMAIN v.x)
      [] v.t = "str" -> Len(v.s)
      [] OTHER -> 0

\* The JSON value denoted by JSON.stringify(v): expando properties of an
\* array are not serialised.
RECURSIVE Stringify(_)
Stringify(v) ==
    CASE v.t = "arr" -> JArr([i \in 1..Len(v.a) |-> Stringify(v.a[i])])
      [] v.t = "obj" -> JObj([k \in DOMAIN v.o |-> Stringify(v.o[k])])
      [] OTHER -> v

(***************************************************************************)
(* JSON.parse over a token sequence.  A token is [k |-> kind] for          *)
(* punctuation, literals and white space, [k |-> "str", s |-> chars] for a *)
(* string and [k |-> "num", n |-> n] for a number.                         *)
(***************************************************************************)
Tk(c) == [k |-> c]
TStr(s) == [k |-> "str", s |-> s]
TNum(n) == [k |-> "num", n |-> n]

ParseFail == [ok |-> FALSE]
ParseOk(v, next) == [ok |-> TRUE, v |-> v, next |-> next]

KindAt(toks, i) == IF i <= Len(toks) THEN toks[i].k ELSE "eof"

RECURSIVE ParseValue(_, _), ParseMembers(_, _, _), ParseElements(_, _, _)

ParseValue(toks, i) ==
    LET k == KindAt(toks, i) IN
    CASE k = "str" -> ParseOk(JStr(toks[i].s), i + 1)
      [] k = "num" -> ParseOk(JNum(toks[i].n), i + 1)
      [] k = "true" -> ParseOk(JBool(TRUE), i + 1)
      [] k = "false" -> ParseOk(JBool(FALSE), i + 1)
      [] k = "null" -> ParseOk(JNull, i + 1)
      [] k = "{" -> IF KindAt(toks, i + 1) = "}"
                    THEN ParseOk(JObj(EmptyProps), i + 2)
                    ELSE ParseMembers(toks, i + 1, EmptyProps)
      [] k = "[" -> IF KindAt(toks, i + 1) = "]"
                    THEN ParseOk(JArr(<< >>), i + 2)
                    ELSE ParseElements(toks, i + 1, << >>)
      [] OTHER -> ParseFail

\* key ":" value ( "," more | "}" ); a repeated key keeps the last value.
ParseMembers(toks, i, acc) ==
    IF KindAt(toks, i) = "str" /\ KindAt(toks, i + 1) = ":"
    THEN LET r == ParseValue(toks, i + 2) IN
         IF ~r.ok THEN ParseFail
         ELSE LET acc2 == Extend(acc, toks[i].s, r.v) IN
              CASE KindAt(toks, r.next) = "," -> ParseMembers(toks, r.next + 1, acc2)
                [] KindAt(toks, r.next) = "}" -> ParseOk(JObj(acc2), r.next + 1)
                [] OTHER -> ParseFail
    ELSE ParseFail

\* value ( "," more | "]" )
ParseElements(toks, i, acc) ==
    LET r == ParseValue(toks, i) IN
    IF ~r.ok THEN ParseFail
    ELSE LET acc2 == Append(acc, r.v) IN
         CASE KindAt(toks, r.next) = "," -> ParseElements(toks, r.next + 1, acc2)
           [] KindAt(toks, r.next) = "]" -> ParseOk(JArr(acc2), r.next + 1)
           [] OTHER -> ParseFail

\* JSON.parse(text): white space between tokens is skipped, exactly one
\* value must span the whole text; ok = FALSE models the SyntaxError.
JSONParse(text) ==
    LET toks == SelectSeq(text, LAMBDA t : t.k # "ws")
        r == ParseValue(toks, 1)
    IN  IF r.ok /\ r.next = Len(toks) + 1 THEN [ok |-> TRUE, v |-> r.v] ELSE ParseFail

(***************************************************************************)
(* Clock and identifier sources.                                           *)
(***************************************************************************)
\* new Date().toISOString() when the clock reads n.
ISOString(n) == <<"T", ToString(n)>>

\* The n-th value returned by crypto.randomUUID().
UUID(n) == <<"uuid-", ToString(n)>>

(***************************************************************************)
(* Response helpers.                                                       *)
(***************************************************************************)
JsonHeaders == [ContentType |-> "application/json"]

\* A message text is a string of one fragment.
Text(m) == JStr(<<m>>)

\* createSuccessResponse with the data wrapped in an `Item` field.
createSuccessResponse_wrapped(statusCode, data) ==
    [statusCode |-> statusCode,
     headers |-> JsonHeaders,
     body |-> Stringify(JObj(Extend(EmptyProps, <<"I", "t", "e", "m">>, data)))]

createSuccessResponse(statusCode, data) ==
    [statusCode |-> statusCode, headers |-> JsonHeaders, body |-> Stringify(data)]

\* createErrorResponse with the body's statusCode fixed to 500.
createErrorResponse_fixedStatus(statusCode, message, clock) ==
    [statusCode |-> statusCode,
     headers |-> JsonHeaders,
     body |-> Stringify(JObj(Extend(Extend(Extend(EmptyProps,
                  K_error, Text(message)),
                  K_statusCode, JNum(INTERNAL_SERVER_ERROR)),
                  K_timestamp, JStr(ISOString(clock)))))]

createErrorResponse(statusCode, message, clock) ==
    [statusCode |-> statusCode,
     headers |-> JsonHeaders,
     body |-> Stringify(JObj(Extend(Extend(Extend(EmptyProps,
                  K_error, Text(message)),
                  K_statusCode, JNum(statusCode)),
                  K_timestamp, JStr(ISOString(clock)))))]

(***************************************************************************)
(* Thrown values.  kind is what typeof distinguishes; name is the `name`   *)
(* property, "" when the value has none.                                   *)
(***************************************************************************)
ErrorObject(name) == [kind |-> "object", name |-> name]
TypeError == ErrorObject("TypeError")
NoError == [kind |-> "none", name |-> ""]

\* The list of names without the throughput error.
dynamoDBErrors_short ==
    {"ResourceNotFoundException", "ServiceUnavailable"}

dynamoDBErrors ==
    {"ResourceNotFoundException", "ProvisionedThroughputExceededException", "ServiceUnavailable"}

\* A classifier that accepts every object, whatever its name.
isDynamoDBError_anyObject(err) ==
    err.kind = "object"

isDynamoDBError(err) ==
    IF err.kind = "object"
    THEN err.name \in dynamoDBErrors
    ELSE FALSE

(***************************************************************************)
(* validateRequestBody.  A raw body is [isNull, text]; the result is the   *)
(* returned object, or threw = TRUE when Object.keys raises on null.       *)
(***************************************************************************)
Invalid(error) == [threw |-> FALSE, isValid |-> FALSE, error |-> error, data |-> UNDEFINED]

\* validateRequestBody refusing every parsed value that is not an object as
\* badly formed JSON.
validateRequestBody_objectOnly(body) ==
    IF body.isNull \/ body.text = << >>
    THEN Invalid("Request body is required")
    ELSE LET parsed == JSONParse(body.text) IN
         IF ~parsed.ok \/ parsed.v.t \notin {"obj", "arr"}
         THEN Invalid("Invalid JSON format")
         ELSE IF OwnKeyCount(parsed.v) = 0
         THEN Invalid("Request body cannot be empty")
         ELSE [threw |-> FALSE, isValid |-> TRUE, error |-> "", data |-> parsed.v]

validateRequestBody(body) ==
    IF body.isNull \/ body.text = << >>
    THEN Invalid("Request body is required")
    ELSE LET parsed == JSONParse(body.text) IN
         IF ~parsed.ok
         THEN Invalid("Invalid JSON format")
         ELSE IF parsed.v.t = "null"
         THEN [threw |-> TRUE, isValid |-> FALSE, error |-> "", data |-> UNDEFINED]
         ELSE IF OwnKeyCount(parsed.v) = 0
         THEN Invalid("Request body cannot be empty")
         ELSE [threw |-> FALSE, isValid |-> TRUE, error |-> "", data |-> parsed.v]

(***************************************************************************)
(* The synchronous part of a handler ends in one of:                       *)
(*   return  - a response                                                  *)
(*   throw   - an exception leaving the function                           *)
(*   put/get - a storage command sent, the handler awaiting its result     *)
(***************************************************************************)
Return(response) ==
    [kind |-> "return", response |-> response, err |-> NoError,
     item |-> UNDEFINED, key |-> UNDEFINED, uuids |-> 0]
Throw(err, uuids) ==
    [kind |-> "throw", response |-> UNDEFINED, err |-> err,
     item |-> UNDEFINED, key |-> UNDEFINED, uuids |-> uuids]
AwaitPut(item, uuids) ==
    [kind |-> "put", response |-> UNDEFINED, err |-> NoError,
     item |-> item, key |-> UNDEFINED, uuids |-> uuids]
AwaitGet(key) ==
    [kind |-> "get", response |-> UNDEFINED, err |-> NoError,
     item |-> UNDEFINED, key |-> key, uuids |-> 0]

\* The catch block shared by createItem and getItem.
StorageCatch(err, clock, uuids) ==
    IF isDynamoDBError(err)
    THEN [Return(createErrorResponse(SERVICE_UNAVAILABLE, "Database service unavailable", clock))
            EXCEPT !.uuids = uuids]
    ELSE Throw(err, uuids)

\* createItem comparing the supplied id with '' without trimming it.
createItemTry_noTrim(event, uuid, clock) ==
    LET validation == validateRequestBody(event.body) IN
    IF validation.threw THEN Throw(TypeError, 0)
    ELSE IF ~validation.isValid
    THEN Return(createErrorResponse(BAD_REQUEST, validation.error, clock))
    ELSE LET body == validation.data
             id == GetProp(body, K_id)
         IN  IF id # UNDEFINED
             THEN IF ~IsString(id) \/ id.s = << >>
                  THEN Return(createErrorResponse(BAD_REQUEST, "ID must be a non-empty string", clock))
                  ELSE AwaitPut(SetProp(body, K_createdAt, JStr(ISOString(clock))), 0)
             ELSE IF ~CanSetProp(body)
                  THEN Throw(TypeError, 1)
                  ELSE AwaitPut(SetProp(SetProp(body, K_id, JStr(uuid)),
                                        K_createdAt, JStr(ISOString(clock))), 1)

\* createItem storing the trimmed id.
createItemTry_trimStored(event, uuid, clock) ==
    LET validation == validateRequestBody(event.body) IN
    IF validation.threw THEN Throw(TypeError, 0)
    ELSE IF ~validation.isValid
    THEN Return(createErrorResponse(BAD_REQUEST, validation.error, clock))
    ELSE LET body == validation.data
             id == GetProp(body, K_id)
         IN  IF id # UNDEFINED
             THEN IF ~IsString(id) \/ Trim(id.s) = << >>
                  THEN Return(createErrorResponse(BAD_REQUEST, "ID must be a non-empty string", clock))
                  ELSE AwaitPut(SetProp(SetProp(body, K_id, JStr(Trim(id.s))),
                                        K_createdAt, JStr(ISOString(clock))), 0)
             ELSE IF ~CanSetProp(body)
                  THEN Throw(TypeError, 1)
                  ELSE AwaitPut(SetProp(SetProp(body, K_id, JStr(uuid)),
                                        K_createdAt, JStr(ISOString(clock))), 1)

\* createItem rejecting only blank strings, letting other types through.
createItemTry_noTypeCheck(event, uuid, clock) ==
    LET validation == validateRequestBody(event.body) IN
    IF validation.threw THEN Throw(TypeError, 0)
    ELSE IF ~validation.isValid
    THEN Return(createErrorResponse(BAD_REQUEST, validation.error, clock))
    ELSE LET body == validation.data
             id == GetProp(body, K_id)
         IN  IF id # UNDEFINED
             THEN IF IsString(id) /\ Trim(id.s) = << >>
                  THEN Return(createErrorResponse(BAD_REQUEST, "ID must be a non-empty string", clock))
                  ELSE AwaitPut(SetProp(body, K_createdAt, JStr(ISOString(clock))), 0)
             ELSE IF ~CanSetProp(body)
                  THEN Throw(TypeError, 1)
                  ELSE AwaitPut(SetProp(SetProp(body, K_id, JStr(uuid)),
                                        K_createdAt, JStr(ISOString(clock))), 1)

\* createItem stamping createdAt only when the caller sent none.
createItemTry_keepCreatedAt(event, uuid, clock) ==
    LET validation == validateRequestBody(event.body) IN
    IF validation.threw THEN Throw(TypeError, 0)
    ELSE IF ~validation.isValid
    THEN Return(createErrorResponse(BAD_REQUEST, validation.error, clock))
    ELSE LET body == validation.data
             id == GetProp(body, K_id)
         IN  IF id # UNDEFINED
             THEN IF ~IsString(id) \/ Trim(id.s) = << >>
                  THEN Return(createErrorResponse(BAD_REQUEST, "ID must be a non-empty string", clock))
                  ELSE AwaitPut(IF GetProp(body, K_createdAt) # UNDEFINED THEN body
                               ELSE SetProp(body, K_createdAt, JStr(ISOString(clock))), 0)
             ELSE IF ~CanSetProp(body)
                  THEN Throw(TypeError, 1)
                  ELSE AwaitPut(IF GetProp(body, K_createdAt) # UNDEFINED THEN SetProp(body, K_id, JStr(uuid))
                               ELSE SetProp(SetProp(body, K_id, JStr(uuid)),
                                            K_createdAt, JStr(ISOString(clock))), 1)

\* createItem assigning the same id to every record without one.
createItemTry_fixedId(event, uuid, clock) ==
    LET validation == validateRequestBody(event.body) IN
    IF validation.threw THEN Throw(TypeError, 0)
    ELSE IF ~validation.isValid
    THEN Return(createErrorResponse(BAD_REQUEST, validation.error, clock))
    ELSE LET body == validation.data
             id == GetProp(body, K_id)
         IN  IF id # UNDEFINED
             THEN IF ~IsString(id) \/ Trim(id.s) = << >>
                  THEN Return(createErrorResponse(BAD_REQUEST, "ID must be a non-empty string", clock))
                  ELSE AwaitPut(SetProp(body, K_createdAt, JStr(ISOString(clock))), 0)
             ELSE IF ~CanSetProp(body)
                  THEN Throw(TypeError, 1)
                  ELSE AwaitPut(SetProp(SetProp(body, K_id, JStr(<<"uuid-", "1">>)),
                                        K_createdAt, JStr(ISOString(clock))), 1)

\* createItem building the record from id and createdAt alone.
createItemTry_freshRecord(event, uuid, clock) ==
    LET validation == validateRequestBody(event.body) IN
    IF validation.threw THEN Throw(TypeError, 0)
    ELSE IF ~validation.isValid
    THEN Return(createErrorResponse(BAD_REQUEST, validation.error, clock))
    ELSE LET body == validation.data
             id == GetProp(body, K_id)
         IN  IF id # UNDEFINED
             THEN IF ~IsString(id) \/ Trim(id.s) = << >>
                  THEN Return(createErrorResponse(BAD_REQUEST, "ID must be a non-empty string", clock))
                  ELSE AwaitPut(SetProp(SetProp(JObj(EmptyProps), K_id, id),
                                        K_createdAt, JStr(ISOString(clock))), 0)
             ELSE IF ~CanSetProp(body)
                  THEN Throw(TypeError, 1)
                  ELSE AwaitPut(SetProp(SetProp(JObj(EmptyProps), K_id, JStr(uuid)),
                                        K_createdAt, JStr(ISOString(clock))), 1)

\* createItem up to `await dynamodb.send(new PutCommand(...))`.
\* uuid is the value randomUUID() returns if called, clock the instant
\* new Date() reads.
createItemTry(event, uuid, clock) ==
    LET validation == validateRequestBody(event.body) IN
    IF validation.threw THEN Throw(TypeError, 0)
    ELSE IF ~validation.isValid
    THEN Return(createErrorResponse(BAD_REQUEST, validation.error, clock))
    ELSE LET body == validation.data
             id == GetProp(body, K_id)
         IN  IF id # UNDEFINED
             THEN IF ~IsString(id) \/ Trim(id.s) = << >>
                  THEN Return(createErrorResponse(BAD_REQUEST, "ID must be a non-empty string", clock))
                  ELSE AwaitPut(SetProp(body, K_createdAt, JStr(ISOString(clock))), 0)
             ELSE IF ~CanSetProp(body)
                  THEN Throw(TypeError, 1)
                  ELSE AwaitPut(SetProp(SetProp(body, K_id, JStr(uuid)),
                                        K_createdAt, JStr(ISOString(clock))), 1)

createItem(event, uuid, clock) ==
    LET r == createItemTry(event, uuid, clock) IN
    IF r.kind = "throw" THEN StorageCatch(r.err, clock, r.uuids) ELSE r

\* getItem with the length check placed before the blank check.
getItem_lengthFirst(event, clock) ==
    IF event.pathParameters.isNull
    THEN Return(createErrorResponse(BAD_REQUEST, "Path parameters are required", clock))
    ELSE LET hasId == event.pathParameters.hasId
             itemId == event.pathParameters.id
         IN  IF hasId /\ Len(itemId) > MAX_ID_LENGTH
             THEN Return(createErrorResponse(BAD_REQUEST, "ID parameter is too long", clock))
             ELSE IF ~hasId \/ itemId = << >> \/ Trim(itemId) = << >>
             THEN Return(createErrorResponse(BAD_REQUEST, "ID parameter is required", clock))
             ELSE AwaitGet(JStr(itemId))

\* getItem with the cap compared by >= instead of >.
getItem_offByOne(event, clock) ==
    IF event.pathParameters.isNull
    THEN Return(createErrorResponse(BAD_REQUEST, "Path parameters are required", clock))
    ELSE LET hasId == event.pathParameters.hasId
             itemId == event.pathParameters.id
         IN  IF ~hasId \/ itemId = << >> \/ Trim(itemId) = << >>
             THEN Return(createErrorResponse(BAD_REQUEST, "ID parameter is required", clock))
             ELSE IF Len(itemId) >= MAX_ID_LENGTH
             THEN Return(createErrorResponse(BAD_REQUEST, "ID parameter is too long", clock))
             ELSE AwaitGet(JStr(itemId))

\* getItem looking the item up under the trimmed id.
getItem_trimmed(event, clock) ==
    IF event.pathParameters.isNull
    THEN Return(createErrorResponse(BAD_REQUEST, "Path parameters are required", clock))
    ELSE LET hasId == event.pathParameters.hasId
             itemId == event.pathParameters.id
         IN  IF ~hasId \/ itemId = << >> \/ Trim(itemId) = << >>
             THEN Return(createErrorResponse(BAD_REQUEST, "ID parameter is required", clock))
             ELSE IF Len(itemId) > MAX_ID_LENGTH
             THEN Return(createErrorResponse(BAD_REQUEST, "ID parameter is too long", clock))
             ELSE AwaitGet(JStr(Trim(itemId)))

\* getItem up to `await dynamodb.send(new GetCommand(...))`.
getItem(event, clock) ==
    IF event.pathParameters.isNull
    THEN Return(createErrorResponse(BAD_REQUEST, "Path parameters are required", clock))
    ELSE LET hasId == event.pathParameters.hasId
             itemId == event.pathParameters.id
         IN  IF ~hasId \/ itemId = << >> \/ Trim(itemId) = << >>
             THEN Return(createErrorResponse(BAD_REQUEST, "ID parameter is required", clock))
             ELSE IF Len(itemId) > MAX_ID_LENGTH
             THEN Return(createErrorResponse(BAD_REQUEST, "ID parameter is too long", clock))
             ELSE AwaitGet(JStr(itemId))

\* lambdaHandler without its catch block: what is thrown leaves the handler.
lambdaHandlerCatch_rethrow(r, clock) == r

\* The catch block of lambdaHandler.
lambdaHandlerCatch(r, clock) ==
    IF r.kind = "throw"
    THEN [Return(createErrorResponse(INTERNAL_SERVER_ERROR, "Internal server error", clock))
            EXCEPT !.err = r.err, !.uuids = r.uuids]
    ELSE r

\* lambdaHandler comparing the method without regard to case.
lambdaHandler_ignoreCase(event, uuid, clock) ==
    LET method == event.httpMethod IN
    IF method \in {"POST", "post"}
    THEN lambdaHandlerCatch(createItem(event, uuid, clock), clock)
    ELSE IF method \in {"GET", "get"}
    THEN lambdaHandlerCatch(getItem(event, clock), clock)
    ELSE Return(createErrorResponse(METHOD_NOT_ALLOWED, "Method not allowed", clock))

\* lambdaHandler up to the first await (or to its return).
lambdaHandler(event, uuid, clock) ==
    LET method == event.httpMethod IN
    IF method = "POST"
    THEN lambdaHandlerCatch(createItem(event, uuid, clock), clock)
    ELSE IF method = "GET"
    THEN lambdaHandlerCatch(getItem(event, clock), clock)
    ELSE Return(createErrorResponse(METHOD_NOT_ALLOWED, "Method not allowed", clock))

(***************************************************************************)
(* The storage collaborator: the DynamoDB table, partition key `id`        *)
(* (String).  A put is an upsert keyed by the item's id; an item without a *)
(* string `id` attribute (an array marshals to its elements only) is       *)
(* rejected by the table.  Any call may also fail with any thrown value.   *)
(***************************************************************************)
StorageErrors ==
    {ErrorObject(n) : n \in {"ResourceNotFoundException",
                              "ProvisionedThroughputExceededException",
                              "ServiceUnavailable",
                              "ValidationException", ""}}
        \cup {[kind |-> "string", name |-> ""], [kind |-> "null", name |-> ""]}

StorageAccepts(item) ==
    /\ item.t = "obj"
    /\ K_id \in DOMAIN item.o
    /\ item.o[K_id].t = "str"
    /\ item.o[K_id].s # << >>

(***************************************************************************)
(* Requests.                                                               *)
(***************************************************************************)
NullBody == [isNull |-> TRUE, text |-> << >>]
Body(text) == [isNull |-> FALSE, text |-> text]
NullPath == [isNull |-> TRUE, hasId |-> FALSE, id |-> << >>]
EmptyPath == [isNull |-> FALSE, hasId |-> FALSE, id |-> << >>]
PathId(id) == [isNull |-> FALSE, hasId |-> TRUE, id |-> id]

\* {"k1": v1}
Obj1(k1, v1) == <<Tk("{"), TStr(k1), Tk(":")>> \o v1 \o <<Tk("}")>>
\* {"k1": v1, "k2": v2}
Obj2(k1, v1, k2, v2) ==
    <<Tk("{"), TStr(k1), Tk(":")>> \o v1 \o <<Tk(","), TStr(k2), Tk(":")>> \o v2 \o <<Tk("}")>>
S(c) == <<TStr(c)>>
N(n) == <<TNum(n)>>

ValidBodies ==
    { Obj1(K_name, S(<<"x">>)),
      Obj2(K_name, S(<<"x">>), K_price, N(1)),
      Obj2(K_id, S(<<"a">>), K_name, S(<<"x">>)),
      Obj2(K_id, S(<<"a">>), K_name, S(<<"y">>)),
      Obj1(K_id, S(<<" ", "a", " ">>)),
      Obj2(K_createdAt, S(<<"o", "l", "d">>), K_name, S(<<"x">>)),
      Obj2(K_id, S(<<"a">>), K_createdAt, S(<<"T", "0">>)),
      Obj2(K_id, S(<<"a">>), K_id, S(<<"b">>)),
      <<Tk("ws")>> \o Obj1(K_id, S(<<"uuid-", "1">>)) \o <<Tk("ws")>> }

BadIdBodies ==
    { Obj1(K_id, S(<< >>)),
      Obj2(K_id, S(<<" ", "\t">>), K_name, S(<<"x">>)),
      Obj1(K_id, N(1)),
      Obj1(K_id, <<Tk("null")>>),
      Obj1(K_id, <<Tk("true")>>),
      Obj1(K_id, <<Tk("["), Tk("]")>>),
      Obj1(K_id, Obj1(K_name, S(<<"x">>))) }

NonObjectBodies ==
    { <<Tk("null")>>,
      <<Tk("true")>>,
      <<Tk("false")>>,
      N(42),
      N(0),
      S(<< >>),
      S(<<"a", "b">>),
      <<Tk("["), Tk("]")>>,
      <<Tk("["), TNum(1), Tk("]")>> }

UnparsableBodies ==
    { <<Tk("ws")>>,
      <<Tk("{"), TStr(K_name)>>,
      <<Tk("{"), TStr(K_name), Tk(":"), TStr(<<"x">>), Tk(","), Tk("}")>>,
      <<Tk("not"), Tk("json")>>,
      <<Tk("{"), Tk("}"), Tk("}")>> }

Bodies ==
    {NullBody, Body(<< >>), Body(<<Tk("{"), Tk("}")>>)}
        \cup {Body(b) : b \in ValidBodies \cup BadIdBodies \cup NonObjectBodies \cup UnparsableBodies}

\* The string of n copies of the character c.
Repeat(c, n) == [k \in 1..n |-> c]

\* Path ids at the length cap: at it, one over it, blank and over it, and
\* padded so that only the untrimmed length is over it.
LongIds ==
    { Repeat("a", MAX_ID_LENGTH),
      Repeat("a", MAX_ID_LENGTH - 1) \o <<" ">>,
      Repeat("a", MAX_ID_LENGTH + 1),
      <<" ">> \o Repeat("a", MAX_ID_LENGTH),
      Repeat(" ", MAX_ID_LENGTH),
      Repeat(" ", MAX_ID_LENGTH + 1) }

PathParams ==
    { NullPath, EmptyPath,
      PathId(<< >>), PathId(<<" ", " ">>),
      PathId(<<"a">>), PathId(<<"b">>), PathId(<<" ", "a", " ">>),
      PathId(<<"uuid-", "1">>), PathId(<<"z">>) }
        \cup {PathId(id) : id \in LongIds}

Methods == {"PUT", "DELETE", "PATCH", "get", "post"}

Event(m, b, p) == [httpMethod |-> m, body |-> b, pathParameters |-> p]

Events ==
    {Event("POST", b, NullPath) : b \in Bodies}
        \cup {Event("GET", NullBody, p) : p \in PathParams}
        \cup {Event(m, Body(Obj1(K_name, S(<<"x">>))), PathId(<<"a">>)) : m \in Methods}
        \cup {Event("POST", Body(Obj1(K_name, S(<<"x">>))), PathId(<<"a">>)),
              Event("GET", Body(Obj1(K_name, S(<<"x">>))), PathId(<<"a">>)),
              Event("get", Body(<< >>), EmptyPath)}

(***************************************************************************)
(* State.                                                                  *)
(*   inv[i]    - invocation i of lambdaHandler: where it is (idle,         *)
(*               awaitPut, awaitGet, done), its event, the clock at its    *)
(*               start, the command it sent, its response, the exception   *)
(*               that reached lambdaHandler's catch, the value its storage *)
(*               call raised, the number of randomUUID and storage calls   *)
(*               it made and the position of its call in storage order     *)
(*   store     - the table: id -> item                                     *)
(*   now       - the clock                                                 *)
(*   uuidCount - calls of randomUUID() so far                              *)
(*   callCount - storage calls completed so far                            *)
(***************************************************************************)
Invocations == 1..MaxInvocations

NoEvent == Event("", NullBody, NullPath)

Idle ==
    [pc |-> "idle", event |-> NoEvent, startedAt |-> 0, item |-> UNDEFINED,
     key |-> UNDEFINED, response |-> UNDEFINED, err |-> NoError, raised |-> NoError,
     uuids |-> 0, calls |-> 0, order |-> 0]

Init ==
    /\ inv = [i \in Invocations |-> Idle]
    /\ store = EmptyProps
    /\ now = 0
    /\ uuidCount = 0
    /\ callCount = 0

\* The state of invocation i after a handler step that ended in r.
After(cur, r) ==
    [cur EXCEPT !.pc = CASE r.kind = "put" -> "awaitPut"
                         [] r.kind = "get" -> "awaitGet"
                         [] OTHER -> "done",
                !.item = r.item,
                !.key = r.key,
                !.response = r.response,
                !.err = r.err,
                !.uuids = r.uuids,
                !.calls = IF r.kind \in {"put", "get"} THEN 1 ELSE 0]

\* An event arrives: lambdaHandler runs up to its first await, or returns.
\* elapsed is the time that passes before the handler reads the clock.
Invoke(i, event, elapsed) ==
    /\ inv[i].pc = "idle"
    /\ \A j \in 1..(i - 1) : inv[j].pc # "idle"
    /\ now + elapsed <= MaxClock
    /\ LET r == lambdaHandler(event, UUID(uuidCount + 1), now + elapsed) IN
       /\ inv' = [inv EXCEPT ![i] =
                     After([Idle EXCEPT !.event = event, !.startedAt = now], r)]
       /\ uuidCount' = uuidCount + r.uuids
    /\ now' = now + elapsed
    /\ UNCHANGED <<store, callCount>>

\* The continuation of a handler after its storage call ended in r.
Finish(cur, r) ==
    [cur EXCEPT !.pc = "done",
                !.response = r.response,
                !.err = r.err,
                !.order = callCount + 1]

\* A put that does not replace an item already stored under the id.
PutResolve_ifAbsent(i) ==
    /\ inv[i].pc = "awaitPut"
    /\ StorageAccepts(inv[i].item)
    /\ store' = IF inv[i].item.o[K_id].s \in DOMAIN store
                THEN store
                ELSE Extend(store, inv[i].item.o[K_id].s, inv[i].item)
    /\ inv' = [inv EXCEPT ![i] =
                  Finish(@, Return(createSuccessResponse(CREATED, inv[i].item)))]
    /\ callCount' = callCount + 1
    /\ UNCHANGED <<now, uuidCount>>

\* A put that keeps the createdAt of an item already stored under the id.
PutResolve_keepStamp(i) ==
    /\ inv[i].pc = "awaitPut"
    /\ StorageAccepts(inv[i].item)
    /\ store' = Extend(store, inv[i].item.o[K_id].s,
                       IF inv[i].item.o[K_id].s \in DOMAIN store
                       THEN [inv[i].item EXCEPT !.o[K_createdAt] =
                                store[inv[i].item.o[K_id].s].o[K_createdAt]]
                       ELSE inv[i].item)
    /\ inv' = [inv EXCEPT ![i] =
                  Finish(@, Return(createSuccessResponse(CREATED, inv[i].item)))]
    /\ callCount' = callCount + 1
    /\ UNCHANGED <<now, uuidCount>>

\* A put that stores the item under its id with the white space trimmed off.
PutResolve_trimmedKey(i) ==
    /\ inv[i].pc = "awaitPut"
    /\ StorageAccepts(inv[i].item)
    /\ store' = Extend(store, Trim(inv[i].item.o[K_id].s), inv[i].item)
    /\ inv' = [inv EXCEPT ![i] =
                  Finish(@, Return(createSuccessResponse(CREATED, inv[i].item)))]
    /\ callCount' = callCount + 1
    /\ UNCHANGED <<now, uuidCount>>

\* PutCommand succeeds: the table holds the item, createItem returns 201.
PutResolve(i) ==
    /\ inv[i].pc = "awaitPut"
    /\ StorageAccepts(inv[i].item)
    /\ store' = Extend(store, inv[i].item.o[K_id].s, inv[i].item)
    /\ inv' = [inv EXCEPT ![i] =
                  Finish(@, Return(createSuccessResponse(CREATED, inv[i].item)))]
    /\ callCount' = callCount + 1
    /\ UNCHANGED <<now, uuidCount>>

\* A storage call raises err and a catch block that neither returns nor
\* rethrows an unclassified error leaves the invocation without an outcome.
Reject_lost(i, err) ==
    /\ inv[i].pc \in {"awaitPut", "awaitGet"}
    /\ inv' = [inv EXCEPT ![i] =
                  IF isDynamoDBError(err)
                  THEN [Finish(@, lambdaHandlerCatch(StorageCatch(err, now, 0), now))
                            EXCEPT !.raised = err]
                  ELSE [@ EXCEPT !.pc = "lost", !.raised = err]]
    /\ callCount' = callCount + 1
    /\ UNCHANGED <<store, now, uuidCount>>

\* A storage call raises err: the catch blocks map it to 503 or 500.
Reject(i, err) ==
    /\ inv[i].pc \in {"awaitPut", "awaitGet"}
    /\ inv' = [inv EXCEPT ![i] =
                  [Finish(@, lambdaHandlerCatch(StorageCatch(err, now, 0), now))
                      EXCEPT !.raised = err]]
    /\ callCount' = callCount + 1
    /\ UNCHANGED <<store, now, uuidCount>>

\* A fetch that returns the stored item without its createdAt.
GetResolve_projected(i) ==
    /\ inv[i].pc = "awaitGet"
    /\ inv' = [inv EXCEPT ![i] =
                  Finish(@, IF inv[i].key.s \in DOMAIN store
                            THEN Return(createSuccessResponse(OK,
                                    JObj([k \in DOMAIN store[inv[i].key.s].o \ {K_createdAt} |->
                                            store[inv[i].key.s].o[k]])))
                            ELSE Return(createErrorResponse(NOT_FOUND, "Item not found", now)))]
    /\ callCount' = callCount + 1
    /\ UNCHANGED <<store, now, uuidCount>>

\* A fetch without the `!response.Item` check.
GetResolve_noCheck(i) ==
    /\ inv[i].pc = "awaitGet"
    /\ inv' = [inv EXCEPT ![i] =
                  Finish(@, Return(createSuccessResponse(OK,
                                IF inv[i].key.s \in DOMAIN store
                                THEN store[inv[i].key.s] ELSE UNDEFINED)))]
    /\ callCount' = callCount + 1
    /\ UNCHANGED <<store, now, uuidCount>>

\* A fetch answered from a cache the process keeps of the items its creates
\* have built, whether or not their puts were applied.
GetResolve_cached(i) ==
    /\ inv[i].pc = "awaitGet"
    /\ inv' = [inv EXCEPT ![i] =
                  Finish(@, IF \E j \in DOMAIN inv : inv[j].item # UNDEFINED
                                    /\ StorageAccepts(inv[j].item)
                                    /\ inv[j].item.o[K_id] = inv[i].key
                            THEN Return(createSuccessResponse(OK,
                                    inv[CHOOSE j \in DOMAIN inv : inv[j].item # UNDEFINED
                                            /\ StorageAccepts(inv[j].item)
                                            /\ inv[j].item.o[K_id] = inv[i].key].item))
                            ELSE IF inv[i].key.s \in DOMAIN store
                            THEN Return(createSuccessResponse(OK, store[inv[i].key.s]))
                            ELSE Return(createErrorResponse(NOT_FOUND, "Item not found", now)))]
    /\ callCount' = callCount + 1
    /\ UNCHANGED <<store, now, uuidCount>>

\* GetCommand returns: response.Item is the stored item, or absent.
GetResolve(i) ==
    /\ inv[i].pc = "awaitGet"
    /\ inv' = [inv EXCEPT ![i] =
                  Finish(@, IF inv[i].key.s \in DOMAIN store
                            THEN Return(createSuccessResponse(OK, store[inv[i].key.s]))
                            ELSE Return(createErrorResponse(NOT_FOUND, "Item not found", now)))]
    /\ callCount' = callCount + 1
    /\ UNCHANGED <<store, now, uuidCount>>

Tick ==
    /\ now < MaxClock
    /\ now' = now + 1
    /\ UNCHANGED <<inv, store, uuidCount, callCount>>

\* The requests and storage failures of the concurrent specification.
CoreEvents ==
    { Event("POST", Body(Obj1(K_name, S(<<"x">>))), NullPath),
      Event("POST", Body(Obj2(K_id, S(<<"a">>), K_name, S(<<"x">>))), NullPath),
      Event("POST", Body(Obj2(K_id, S(<<"a">>), K_name, S(<<"y">>))), NullPath),
      Event("GET", NullBody, PathId(<<"a">>)),
      Event("GET", NullBody, PathId(<<"uuid-", "1">>)),
      Event("PUT", NullBody, PathId(<<"a">>)) }

CoreErrors == {ErrorObject("ServiceUnavailable")}

\* Invocations of lambdaHandler interleaved at their awaits, all within one
\* reading of the clock.
Next ==
    \/ \E i \in Invocations, event \in CoreEvents : Invoke(i, event, 0)
    \/ \E i \in Invocations : PutResolve(i)
    \/ \E i \in Invocations : GetResolve(i)
    \/ \E i \in Invocations, err \in CoreErrors : Reject(i, err)

Spec == Init /\ [][Next]_vars

\* One invocation, every request, every storage failure, the clock running.
NextOne ==
    \/ \E event \in Events, elapsed \in 0..1 : Invoke(1, event, elapsed)
    \/ PutResolve(1)
    \/ GetResolve(1)
    \/ \E err \in StorageErrors : Reject(1, err)
    \/ Tick

SpecOne == Init /\ [][NextOne]_vars

\* The requests and storage failures of the two-request specification: creates
\* with a generated id, a supplied id, a padded id and a rejected id, creates
\* that fail in validation or raise, fetches of those ids, a fetch without
\* path parameters and an unsupported method.
PairEvents ==
    { Event("POST", Body(Obj1(K_name, S(<<"x">>))), NullPath),
      Event("POST", Body(Obj2(K_id, S(<<"a">>), K_name, S(<<"x">>))), NullPath),
      Event("POST", Body(Obj2(K_id, S(<<" ", "a", " ">>), K_name, S(<<"y">>))), NullPath),
      Event("POST", Body(Obj2(K_id, S(<<"a">>), K_name, S(<<"y">>))), NullPath),
      Event("POST", Body(Obj2(K_id, S(<<"<", "\"", ">">>), K_name, S(<<"x">>))), NullPath),
      Event("POST", Body(Obj1(K_id, S(<< >>))), NullPath),
      Event("POST", Body(<<Tk("null")>>), NullPath),
      Event("POST", NullBody, NullPath),
      Event("GET", NullBody, PathId(<<"a">>)),
      Event("GET", NullBody, PathId(<<" ", "a", " ">>)),
      Event("GET", NullBody, PathId(<<"<", "\"", ">">>)),
      Event("GET", NullBody, PathId(<<"uuid-", "1">>)),
      Event("GET", NullBody, NullPath),
      Event("PUT", NullBody, PathId(<<"a">>)) }

PairErrors == {ErrorObject("ServiceUnavailable"), ErrorObject("ValidationException")}

\* Two invocations of lambdaHandler interleaved at their awaits, the clock
\* running.
NextTwo ==
    \/ \E i \in {1, 2}, event \in PairEvents, elapsed \in 0..1 : Invoke(i, event, elapsed)
    \/ \E i \in {1, 2} : PutResolve(i)
    \/ \E i \in {1, 2} : GetResolve(i)
    \/ \E i \in {1, 2}, err \in PairErrors : Reject(i, err)
    \/ Tick

SpecTwo == Init /\ [][NextTwo]_vars

\* The storage call of invocation i ends: it succeeds or it raises.
Resolve(i) ==
    \/ PutResolve(i)
    \/ GetResolve(i)
    \/ \E err \in PairErrors : Reject(i, err)

\* The two-request specification with every storage call ending.
SpecLive == SpecTwo /\ \A i \in {1, 2} : WF_vars(Resolve(i))

(***************************************************************************)
(* Observations on invocations.                                            *)
(***************************************************************************)
Started(i) == inv[i].pc # "idle"
Done(i) == inv[i].pc = "done"
Method(i) == inv[i].event.httpMethod
Status(i) == inv[i].response.statusCode
IssuedPut(i) == inv[i].item # UNDEFINED
IssuedGet(i) == inv[i].key # UNDEFINED
\* The invocation ended in the failure (status, message).
Failed(i, status, message) ==
    /\ Done(i)
    /\ Status(i) = status
    /\ inv[i].response.body.o[K_error] = Text(message)

CreateMessages ==
    {"Request body is required", "Invalid JSON format", "Request body cannot be empty",
     "ID must be a non-empty string"}
FetchMessages ==
    {"Path parameters are required", "ID parameter is required", "ID parameter is too long"}

\* What the request body of invocation i denotes, if it is JSON text.
HasText(i) == ~inv[i].event.body.isNull /\ inv[i].event.body.text # << >>
Parses(i) == HasText(i) /\ JSONParse(inv[i].event.body.text).ok
Sent(i) == JSONParse(inv[i].event.body.text).v
SentObject(i) == Parses(i) /\ Sent(i).t = "obj" /\ DOMAIN Sent(i).o # {}
Blank(s) == \A n \in 1..Len(s) : s[n] \in WhiteSpace

NoOwnKeys(v) ==
    CASE v.t = "obj" -> DOMAIN v.o = {}
      [] v.t = "arr" -> v.a = << >>
      [] v.t = "str" -> v.s = << >>
      [] OTHER -> TRUE

C2_ValidationOrder ==
    \A i \in Invocations : Started(i) /\ Method(i) = "POST" =>
        LET validation == validateRequestBody(inv[i].event.body) IN
        /\ IF ~HasText(i)
           THEN Failed(i, BAD_REQUEST, "Request body is required") /\ inv[i].calls = 0
           ELSE IF ~Parses(i)
           THEN Failed(i, BAD_REQUEST, "Invalid JSON format") /\ inv[i].calls = 0
           ELSE IF NoOwnKeys(Sent(i))
           THEN Failed(i, BAD_REQUEST, "Request body cannot be empty") /\ inv[i].calls = 0
           ELSE /\ ~validation.threw
                /\ validation.isValid
                /\ validation.data = Sent(i)
                /\ \A m \in CreateMessages \ {"ID must be a non-empty string"} :
                        ~Failed(i, BAD_REQUEST, m)
        /\ Failed(i, BAD_REQUEST, "ID must be a non-empty string") =>
                ~validation.threw /\ validation.isValid

(***************************************************************************)
(* C3: a create that returns 201 returns the record it passed to           *)
(* storage.put, and that record has an `id` that is a non-blank string and *)
(* a `createdAt` field.                                                    *)
(***************************************************************************)
Created(i) == Method(i) = "POST" /\ Done(i) /\ Status(i) = CREATED
Returned(i) == inv[i].response.body

Reserved == {K_id, K_createdAt}

SameFields(sent, record) ==
    /\ record.t = "obj"
    /\ DOMAIN record.o = DOMAIN sent.o \cup Reserved
    /\ \A k \in DOMAIN sent.o \ Reserved : record.o[k] = sent.o[k]

C4_FieldsPreserved ==
    \A i \in Invocations : Created(i) /\ SentObject(i) =>
        /\ SameFields(Sent(i), Returned(i))
        /\ SameFields(Sent(i), inv[i].item)
        /\ Returned(i).o[K_id].s \in DOMAIN store
        /\ SameFields(Sent(i), store[Returned(i).o[K_id].s])

C4_Witness ==
    \E i \in Invocations :
        /\ Created(i)
        /\ SentObject(i)
        /\ DOMAIN Sent(i).o = {K_name, K_price}
        /\ Returned(i).o[K_name] = JStr(<<"x">>)
        /\ Returned(i).o[K_price] = JNum(1)
        /\ DOMAIN Returned(i).o = {K_id, K_createdAt, K_name, K_price}

(***************************************************************************)
(* C6: when the body supplies an `id` that is a string and not blank, the  *)
(* record sent to storage, returned and stored carries that id exactly as  *)
(* supplied, surrounding white space included, and no id is generated.     *)
(***************************************************************************)
SentId(i) == Sent(i).o[K_id]
SuppliesId(i) == Method(i) = "POST" /\ SentObject(i) /\ K_id \in DOMAIN Sent(i).o
SuppliesGoodId(i) == SuppliesId(i) /\ SentId(i).t = "str" /\ ~Blank(SentId(i).s)

C6_SuppliedIdKept ==
    \A i \in Invocations : Started(i) /\ SuppliesGoodId(i) =>
        /\ IssuedPut(i)
        /\ inv[i].item.o[K_id] = SentId(i)
        /\ inv[i].uuids = 0
        /\ uuidCount = 0
        /\ Done(i) => Status(i) # BAD_REQUEST
        /\ Created(i) =>
              /\ Returned(i).o[K_id] = SentId(i)
              /\ SentId(i).s \in DOMAIN store
              /\ store[SentId(i).s].o[K_id] = SentId(i)
              /\ DOMAIN store = {SentId(i).s}

C6_Witness ==
    \E i \in Invocations :
        /\ Created(i)
        /\ SuppliesGoodId(i)
        /\ SentId(i) = JStr(<<" ", "a", " ">>)
        /\ Returned(i).o[K_id] = JStr(<<" ", "a", " ">>)

(***************************************************************************)
(* C7: when the validated body has an `id` that is not a string, or is a   *)
(* string that is blank, the outcome is 400 "ID must be a non-empty        *)
(* string" and no storage.put is issued.                                   *)
(***************************************************************************)
C7_BadIdRejected ==
    \A i \in Invocations : Started(i) /\ SuppliesId(i) /\ ~SuppliesGoodId(i) =>
        /\ Failed(i, BAD_REQUEST, "ID must be a non-empty string")
        /\ ~IssuedPut(i)
        /\ inv[i].calls = 0
        /\ store = EmptyProps

C7_Witness ==
    \E i \in Invocations :
        /\ SuppliesId(i)
        /\ SentId(i) = JNull
        /\ Failed(i, BAD_REQUEST, "ID must be a non-empty string")

(***************************************************************************)
(* C8: the record's `createdAt` is the clock as read during the            *)
(* invocation, so never earlier than its start, and it replaces whatever   *)
(* `createdAt` the caller sent, for supplied and for generated ids.        *)
(***************************************************************************)
C8_CreatedAtStamped ==
    \A i \in Invocations : Method(i) = "POST" /\ IssuedPut(i) =>
        /\ \E t \in inv[i].startedAt..now :
                GetProp(inv[i].item, K_createdAt) = JStr(ISOString(t))
        /\ Created(i) => Returned(i).o[K_createdAt] = inv[i].item.o[K_createdAt]

C8_Witness ==
    \E i \in Invocations :
        /\ Created(i)
        /\ SuppliesGoodId(i)
        /\ K_createdAt \in DOMAIN Sent(i).o
        /\ Sent(i).o[K_createdAt] = JStr(ISOString(0))
        /\ inv[i].startedAt = 1
        /\ Returned(i).o[K_createdAt] = JStr(ISOString(1))

(***************************************************************************)
(* C5: creates whose bodies carry no `id` are each assigned a generated id *)
(* that differs from the id generated for every other such create, so no   *)
(* two of them write to the same store key.                                *)
(***************************************************************************)
GeneratesId(i) ==
    /\ Method(i) = "POST"
    /\ HasText(i)
    /\ LET parsed == JSONParse(inv[i].event.body.text) IN
       parsed.ok /\ parsed.v.t = "obj" /\ DOMAIN parsed.v.o # {} /\ K_id \notin DOMAIN parsed.v.o
PutKey(i) == inv[i].item.o[K_id].s

C5_FreshIds ==
    /\ \A i \in Invocations : IssuedPut(i) /\ GeneratesId(i) =>
          /\ inv[i].uuids = 1
          /\ \E n \in 1..uuidCount : PutKey(i) = UUID(n)
          /\ Created(i) => Returned(i).o[K_id].s = PutKey(i) /\ PutKey(i) \in DOMAIN store
    /\ \A i, j \in Invocations :
          i # j /\ IssuedPut(i) /\ IssuedPut(j) /\ PutKey(i) = PutKey(j) =>
              ~(GeneratesId(i) /\ GeneratesId(j))

C5_Witness ==
    \E i, j \in Invocations :
        /\ i # j
        /\ GeneratesId(i) /\ Created(i)
        /\ GeneratesId(j) /\ Created(j)
        /\ inv[i].event = inv[j].event
        /\ Cardinality(DOMAIN store) = 2

(***************************************************************************)
(* C9: create overwrites unconditionally.  A create whose put is not       *)
(* failed by storage returns 201 whether or not a record with that id      *)
(* exists; the table holds under each id the record of the last successful *)
(* create for it, and a fetch that returns a record returns the record of  *)
(* the last successful create before it, in full.                          *)
(***************************************************************************)
Before(i, j) == inv[i].order < inv[j].order
\* The successful creates for key k.
Creates(k) == {c \in Invocations : Created(c) /\ PutKey(c) = k}
\* The last of a non-empty set of completed invocations, in storage order.
Last(P) == CHOOSE c \in P : \A d \in P : inv[d].order <= inv[c].order
Fetched(g) == Method(g) = "GET" /\ Done(g) /\ Status(g) = OK

C9_Overwrite ==
    /\ \A c \in Invocations :
          Method(c) = "POST" /\ Done(c) /\ IssuedPut(c) /\ inv[c].raised = NoError => Created(c)
    /\ \A k \in DOMAIN store :
          /\ Creates(k) # {}
          /\ store[k] = inv[Last(Creates(k))].item
    /\ \A g \in Invocations : Fetched(g) =>
          LET P == {c \in Creates(inv[g].key.s) : Before(c, g)} IN
          /\ P # {}
          /\ Returned(g) = Returned(Last(P))

C9_Witness ==
    \E c, d, g \in Invocations :
        /\ Created(c) /\ Created(d) /\ Fetched(g)
        /\ PutKey(c) = inv[g].key.s
        /\ PutKey(d) = inv[g].key.s
        /\ Before(c, d) /\ Before(d, g)
        /\ Returned(c).o[K_name] # Returned(d).o[K_name]
        /\ Returned(g) = Returned(d)

(***************************************************************************)
(* C10: create then fetch round-trips.  After a create returned 201, a     *)
(* later fetch of the returned id, with no successful create for that id   *)
(* in between and no storage failure, returns 200 with the record the      *)
(* create returned.                                                        *)
(***************************************************************************)
C10_RoundTrip ==
    \A c, g \in Invocations :
        /\ Created(c)
        /\ Method(g) = "GET" /\ Done(g) /\ IssuedGet(g)
        /\ inv[g].key = Returned(c).o[K_id]
        /\ Before(c, g)
        /\ inv[g].raised = NoError
        /\ ~\E d \in Creates(PutKey(c)) : Before(c, d) /\ Before(d, g)
        => /\ Status(g) = OK
           /\ Returned(g) = Returned(c)

C10_Witness ==
    \E c, g \in Invocations :
        /\ Created(c) /\ GeneratesId(c)
        /\ Fetched(g)
        /\ inv[g].event.pathParameters.id = Returned(c).o[K_id].s
        /\ Before(c, g)
        /\ Returned(g) = Returned(c)


(***************************************************************************)
(* C11: a fetch checks its path parameters in a fixed order and the first  *)
(* failing check decides the answer, a 400 sent without any storage get:   *)
(* no path-parameter container gives "Path parameters are required"; a     *)
(* container without an id (the empty container included), or an id that   *)
(* is empty or all whitespace, gives "ID parameter is required"; an id     *)
(* longer than the cap gives "ID parameter is too long".  The blank check  *)
(* comes before the length check, so a whitespace-only id longer than the  *)
(* cap gives "ID parameter is required".  An id passing all three checks   *)
(* is sent to storage.                                                     *)
(***************************************************************************)
C11_PathChecks ==
    \A i \in Invocations :
        Started(i) /\ Method(i) = "GET" =>
            LET p == inv[i].event.pathParameters IN
            IF p.isNull
            THEN Failed(i, BAD_REQUEST, "Path parameters are required") /\ inv[i].calls = 0
            ELSE IF ~p.hasId \/ Blank(p.id)
            THEN Failed(i, BAD_REQUEST, "ID parameter is required") /\ inv[i].calls = 0
            ELSE IF Len(p.id) > MAX_ID_LENGTH
            THEN Failed(i, BAD_REQUEST, "ID parameter is too long") /\ inv[i].calls = 0
            ELSE IssuedGet(i)

\* A whitespace-only id longer than the cap was answered "ID parameter is
\* required".
C11_Witness ==
    \E i \in Invocations :
        /\ Method(i) = "GET"
        /\ ~inv[i].event.pathParameters.isNull
        /\ inv[i].event.pathParameters.hasId
        /\ Len(inv[i].event.pathParameters.id) > MAX_ID_LENGTH
        /\ Blank(inv[i].event.pathParameters.id)
        /\ Failed(i, BAD_REQUEST, "ID parameter is required")
        /\ inv[i].calls = 0

(***************************************************************************)
(* C12: the length cap of a fetch is exactly 255 and is measured on the    *)
(* id as received, white space included: a non-blank id of 255 characters  *)
(* is sent to storage as it is, and one of 256 characters is answered 400  *)
(* "ID parameter is too long" without a storage call, even when trimming   *)
(* would bring it down to 255.                                             *)
(***************************************************************************)
C12_CapExact ==
    \A i \in Invocations :
        LET p == inv[i].event.pathParameters IN
        Started(i) /\ Method(i) = "GET" /\ ~p.isNull /\ p.hasId /\ ~Blank(p.id) =>
            /\ Len(p.id) = 255 => IssuedGet(i) /\ inv[i].key = JStr(p.id)
            /\ Len(p.id) = 256 =>
                    Failed(i, BAD_REQUEST, "ID parameter is too long") /\ inv[i].calls = 0

\* An id of 256 characters, 255 of them after trimming, was answered
\* "ID parameter is too long".
C12_Witness ==
    \E i \in Invocations :
        /\ Method(i) = "GET"
        /\ ~inv[i].event.pathParameters.isNull
        /\ inv[i].event.pathParameters.hasId
        /\ Len(inv[i].event.pathParameters.id) = 256
        /\ inv[i].event.pathParameters.id[1] \in WhiteSpace
        /\ ~Blank(inv[i].event.pathParameters.id)
        /\ Failed(i, BAD_REQUEST, "ID parameter is too long")
        /\ inv[i].calls = 0

(***************************************************************************)
(* C13: a fetch whose id passes the checks, whose storage get does not     *)
(* raise, and whose id no successful create has written before the get, is *)
(* answered 404 "Item not found".                                          *)
(***************************************************************************)
C13_NotFound ==
    \A g \in Invocations :
        /\ Method(g) = "GET" /\ Done(g) /\ IssuedGet(g)
        /\ inv[g].raised = NoError
        /\ ~\E c \in Creates(inv[g].key.s) : Before(c, g)
        => Failed(g, NOT_FOUND, "Item not found")

\* A fetch was answered 404 for an id that a create wrote only afterwards,
\* while the table already held another record.
C13_Witness ==
    \E g, c, d \in Invocations :
        /\ Failed(g, NOT_FOUND, "Item not found")
        /\ Created(c) /\ PutKey(c) = inv[g].key.s /\ Before(g, c)
        /\ Created(d) /\ PutKey(d) # inv[g].key.s /\ Before(d, g)

(***************************************************************************)
(* C14: when the storage get of a fetch returns a record, the fetch is     *)
(* answered 200 and its body is that record as the table holds it at the   *)
(* get, every field and nothing else.                                      *)
(***************************************************************************)
C14_Verbatim ==
    [][\A g \in Invocations :
          /\ inv[g].pc = "awaitGet" /\ inv'[g].pc = "done"
          /\ inv'[g].raised = NoError
          /\ inv[g].key.s \in DOMAIN store
          => /\ inv'[g].response.statusCode = OK
             /\ inv'[g].response.body = store[inv[g].key.s]]_vars

\* A fetch returned the record of the table, with the id, the createdAt and
\* the caller's field.
C14_Witness ==
    \E g \in Invocations :
        /\ Fetched(g)
        /\ inv[g].key.s \in DOMAIN store
        /\ Returned(g) = store[inv[g].key.s]
        /\ DOMAIN Returned(g).o = {K_id, K_createdAt, K_name}
        /\ Returned(g).o[K_id] = inv[g].key

(***************************************************************************)
(* C15: on the create path and on the fetch path, a storage call that      *)
(* raises an error object named ResourceNotFoundException,                 *)
(* ProvisionedThroughputExceededException or ServiceUnavailable ends the   *)
(* invocation with 503 "Database service unavailable".                     *)
(***************************************************************************)
C15_Unavailable ==
    \A i \in Invocations :
        /\ Done(i)
        /\ inv[i].raised.kind = "object"
        /\ inv[i].raised.name \in {"ResourceNotFoundException",
                                   "ProvisionedThroughputExceededException",
                                   "ServiceUnavailable"}
        => /\ Failed(i, SERVICE_UNAVAILABLE, "Database service unavailable")
           /\ Method(i) \in {"POST", "GET"}
           /\ inv[i].err = NoError

\* A fetch whose get raised ProvisionedThroughputExceededException was
\* answered 503.
C15_Witness ==
    \E i \in Invocations :
        /\ Method(i) = "GET"
        /\ inv[i].raised = ErrorObject("ProvisionedThroughputExceededException")
        /\ Failed(i, SERVICE_UNAVAILABLE, "Database service unavailable")

(***************************************************************************)
(* C16: on both paths, a storage call that raises anything else (a value   *)
(* that is not an object, null, an object without a name, an object whose  *)
(* name is not one of the three) has its error thrown on to lambdaHandler  *)
(* and ends the invocation with 500 "Internal server error"; it never      *)
(* ends with 503 or 400.                                                   *)
(***************************************************************************)
C16_Rethrown ==
    \A i \in Invocations :
        /\ Done(i)
        /\ inv[i].raised # NoError
        /\ ~(/\ inv[i].raised.kind = "object"
             /\ inv[i].raised.name \in {"ResourceNotFoundException",
                                        "ProvisionedThroughputExceededException",
                                        "ServiceUnavailable"})
        => /\ Failed(i, INTERNAL_SERVER_ERROR, "Internal server error")
           /\ inv[i].err = inv[i].raised

\* A create whose put raised an error object named ValidationException was
\* answered 500.
C16_Witness ==
    \E i \in Invocations :
        /\ Method(i) = "POST"
        /\ IssuedPut(i)
        /\ inv[i].raised = ErrorObject("ValidationException")
        /\ Failed(i, INTERNAL_SERVER_ERROR, "Internal server error")

(***************************************************************************)
(* C17: no exception leaves lambdaHandler.  Every invocation that has      *)
(* ended has a response whose status is one of 200, 201, 400, 404, 405,    *)
(* 500 and 503, and an invocation that has ended keeps that one outcome.   *)
(***************************************************************************)
C17_NoEscape ==
    /\ [](\A i \in Invocations : Done(i) =>
            /\ inv[i].response # UNDEFINED
            /\ Status(i) \in {OK, CREATED, BAD_REQUEST, NOT_FOUND, METHOD_NOT_ALLOWED,
                              INTERNAL_SERVER_ERROR, SERVICE_UNAVAILABLE})
    /\ [][\A i \in Invocations : Done(i) => inv'[i] = inv[i]]_vars

\* A create whose body made the handler raise a TypeError before any storage
\* call still ended with a response.
C17_Witness ==
    \E i \in Invocations :
        /\ Done(i)
        /\ inv[i].err = TypeError
        /\ inv[i].calls = 0
        /\ inv[i].response # UNDEFINED
        /\ Status(i) = INTERNAL_SERVER_ERROR

(***************************************************************************)
(* C18: the only exception that reaches lambdaHandler's catch is a storage *)
(* error the classifier refused: an invocation that ends with 500 issued a *)
(* storage call, and that call raised a value that is not an error object  *)
(* with one of the three names.  A create whose body has text and parses   *)
(* as JSON (null, a string and an array included) does not end with 500    *)
(* when storage does not raise, and a create that issues no storage call   *)
(* ends with 400.                                                          *)
(***************************************************************************)
C18_OnlyStorageErrors ==
    \A i \in Invocations : Done(i) =>
        /\ Status(i) = INTERNAL_SERVER_ERROR =>
              /\ inv[i].calls = 1
              /\ inv[i].raised # NoError
              /\ ~(/\ inv[i].raised.kind = "object"
                   /\ inv[i].raised.name \in {"ResourceNotFoundException",
                                              "ProvisionedThroughputExceededException",
                                              "ServiceUnavailable"})
        /\ Method(i) = "POST" /\ HasText(i) /\ Parses(i) /\ inv[i].raised = NoError =>
              Status(i) # INTERNAL_SERVER_ERROR
        /\ Method(i) = "POST" /\ inv[i].calls = 0 => Status(i) = BAD_REQUEST

(***************************************************************************)
(* C19: a response with status 400, 404, 405, 500 or 503 has a body with   *)
(* exactly the fields error, statusCode and timestamp, where statusCode is *)
(* the status of the response, error is a text and timestamp is the ISO    *)
(* form of a clock reading within the invocation.  A response with status  *)
(* 201 has the record sent to storage as its body, and one with status 200 *)
(* the record a create stored under the id; neither is wrapped in those    *)
(* three fields.                                                           *)
(***************************************************************************)
FailureFields == {K_error, K_statusCode, K_timestamp}

C19_BodyShape ==
    \A i \in Invocations : Done(i) =>
        /\ Status(i) \in {BAD_REQUEST, NOT_FOUND, METHOD_NOT_ALLOWED,
                          INTERNAL_SERVER_ERROR, SERVICE_UNAVAILABLE} =>
              /\ Returned(i).t = "obj"
              /\ DOMAIN Returned(i).o = FailureFields
              /\ Returned(i).o[K_statusCode] = JNum(Status(i))
              /\ Returned(i).o[K_error].t = "str"
              /\ \E t \in inv[i].startedAt..now :
                    Returned(i).o[K_timestamp] = JStr(ISOString(t))
        /\ Status(i) = CREATED =>
              /\ Returned(i) = inv[i].item
              /\ DOMAIN Returned(i).o # FailureFields
        /\ Status(i) = OK =>
              /\ \E c \in Creates(inv[i].key.s) : Before(c, i) /\ Returned(i) = inv[c].item
              /\ DOMAIN Returned(i).o # FailureFields

\* One request was answered 201 with its record and the other 404 with the
\* three failure fields.
C19_Witness ==
    \E c, h \in Invocations :
        /\ Created(c)
        /\ Returned(c) = inv[c].item
        /\ K_name \in DOMAIN Returned(c).o
        /\ Failed(h, NOT_FOUND, "Item not found")
        /\ DOMAIN Returned(h).o = FailureFields
        /\ Returned(h).o[K_statusCode] = JNum(NOT_FOUND)

(***************************************************************************)
(* C20: the handler never retries.  An invocation issues at most one       *)
(* storage call: exactly one put and no get for a create whose body and id *)
(* pass validation, exactly one get and no put for a fetch whose path      *)
(* parameters pass validation, and none otherwise; storage receives no     *)
(* more calls than that; and an invocation whose storage call raised has   *)
(* ended, with 503 or 500.                                                 *)
(***************************************************************************)
CreatePasses(i) ==
    /\ Method(i) = "POST"
    /\ Parses(i)
    /\ ~NoOwnKeys(Sent(i))
    /\ LET id == GetProp(Sent(i), K_id) IN
       id = UNDEFINED \/ (IsString(id) /\ ~Blank(id.s))

FetchPasses(i) ==
    /\ Method(i) = "GET"
    /\ ~inv[i].event.pathParameters.isNull
    /\ inv[i].event.pathParameters.hasId
    /\ ~Blank(inv[i].event.pathParameters.id)
    /\ Len(inv[i].event.pathParameters.id) <= MAX_ID_LENGTH

C20_NoRetry ==
    /\ \A i \in Invocations : Started(i) =>
          /\ inv[i].calls <= 1
          /\ CreatePasses(i) => inv[i].calls = 1 /\ IssuedPut(i) /\ ~IssuedGet(i)
          /\ FetchPasses(i) => inv[i].calls = 1 /\ IssuedGet(i) /\ ~IssuedPut(i)
          /\ ~CreatePasses(i) /\ ~FetchPasses(i) =>
                inv[i].calls = 0 /\ ~IssuedPut(i) /\ ~IssuedGet(i)
          /\ inv[i].raised # NoError =>
                Done(i) /\ Status(i) \in {SERVICE_UNAVAILABLE, INTERNAL_SERVER_ERROR}
    /\ callCount = Cardinality({i \in Invocations : Done(i) /\ inv[i].calls = 1})

(***************************************************************************)
(* C21 as stated: once a record is stored under an id, the createdAt of    *)
(* the record stored under that id is the same in every later state.       *)
(***************************************************************************)
C21_Immutable ==
    [][\A k \in DOMAIN store :
          /\ k \in DOMAIN store'
          /\ store'[k].o[K_createdAt] = store[k].o[K_createdAt]]_vars

(***************************************************************************)
(* C21 as amended: a record stored under an id stays as it is, createdAt   *)
(* included, through every fetch, every failed request and every create    *)
(* for another id; a later successful create for the same id replaces the  *)
(* whole record with its own, whose createdAt is the stamp that create     *)
(* took from the clock during its invocation.                              *)
(***************************************************************************)
PutApplied(c) == inv[c].pc = "awaitPut" /\ inv'[c].pc = "done" /\ inv'[c].raised = NoError

C21_StampReplaced ==
    [][/\ \A k \in DOMAIN store :
            /\ k \in DOMAIN store'
            /\ store'[k] # store[k] =>
                  \E c \in Invocations :
                      /\ PutApplied(c)
                      /\ PutKey(c) = k
                      /\ store'[k] = inv[c].item
       /\ \A c \in Invocations : PutApplied(c) =>
            /\ store'[PutKey(c)] = inv[c].item
            /\ \E t \in inv[c].startedAt..now :
                  store'[PutKey(c)].o[K_createdAt] = JStr(ISOString(t))]_vars

\* Two creates for one id succeeded one after the other with different
\* stamps, and the table holds the stamp of the later one.
C21_Witness ==
    \E c, d \in Invocations :
        /\ Created(c) /\ Created(d)
        /\ PutKey(c) = PutKey(d)
        /\ Before(c, d)
        /\ inv[c].item.o[K_createdAt] # inv[d].item.o[K_createdAt]
        /\ store[PutKey(d)].o[K_createdAt] = inv[d].item.o[K_createdAt]

(***************************************************************************)
(* C22: a request with the method "get" in lower case, the empty string as *)
(* body and an empty path-parameter container is answered 200 with the     *)
(* body {"message": "hello world"}.                                        *)
(***************************************************************************)
C22_HelloWorld ==
    \A i \in Invocations :
        /\ Done(i)
        /\ Method(i) = "get"
        /\ inv[i].event.body = Body(<< >>)
        /\ inv[i].event.pathParameters = EmptyPath
        => /\ Status(i) = OK
           /\ Returned(i) = JObj(Extend(EmptyProps, <<"m", "e", "s", "s", "a", "g", "e">>,
                                        Text("hello world")))

(***************************************************************************)
(* C23: a fetch looks its path id up exactly as received, white space and  *)
(* special characters included.  When its get does not raise, it is        *)
(* answered 200 with a record whose id is that same string if a create     *)
(* stored a record under exactly that string before, and 404 otherwise.    *)
(***************************************************************************)
C23_ExactKey ==
    \A g \in Invocations :
        Started(g) /\ Method(g) = "GET" /\ IssuedGet(g) =>
            LET id == inv[g].event.pathParameters.id IN
            /\ inv[g].key = JStr(id)
            /\ Done(g) /\ inv[g].raised = NoError =>
                  IF \E c \in Creates(id) : Before(c, g)
                  THEN Status(g) = OK /\ Returned(g).o[K_id] = JStr(id)
                  ELSE Failed(g, NOT_FOUND, "Item not found")

\* A record created under an id with a space on either side was fetched
\* under that id.
C23_Witness ==
    \E c, g \in Invocations :
        /\ Created(c)
        /\ PutKey(c) = <<" ", "a", " ">>
        /\ Fetched(g)
        /\ inv[g].event.pathParameters.id = <<" ", "a", " ">>
        /\ Returned(g).o[K_id] = JStr(<<" ", "a", " ">>)

(***************************************************************************)
(* C24: two creates that supply the same id and whose puts both succeed    *)
(* are both answered 201, each with its own record, also when they run     *)
(* interleaved at their puts; the table then holds under that id the       *)
(* record of the one whose put was applied last, whole, and no mixture of  *)
(* the two.                                                                *)
(***************************************************************************)
C24_LastWriteWins ==
    \A c, d \in Invocations :
        /\ c # d
        /\ Method(c) = "POST" /\ Method(d) = "POST"
        /\ Done(c) /\ Done(d)
        /\ IssuedPut(c) /\ IssuedPut(d)
        /\ inv[c].uuids = 0 /\ inv[d].uuids = 0
        /\ inv[c].raised = NoError /\ inv[d].raised = NoError
        /\ PutKey(c) = PutKey(d)
        /\ Before(c, d)
        => /\ Created(c) /\ Returned(c) = inv[c].item
           /\ Created(d) /\ Returned(d) = inv[d].item
           /\ PutKey(d) \in DOMAIN store
           /\ store[PutKey(d)] = inv[d].item

\* The second of two creates for one id started while the first was waiting
\* for its put and had its own put applied first; the records differ in name
\* and createdAt, and the table holds the first one's record.
C24_Witness ==
    /\ Created(1) /\ Created(2)
    /\ inv[1].uuids = 0 /\ inv[2].uuids = 0
    /\ PutKey(1) = PutKey(2)
    /\ Before(2, 1)
    /\ inv[1].item.o[K_name] # inv[2].item.o[K_name]
    /\ inv[1].item.o[K_createdAt] # inv[2].item.o[K_createdAt]
    /\ store[PutKey(1)] = inv[1].item
    /\ Returned(2) = inv[2].item

(***************************************************************************)
(* C25: the handler keeps nothing between invocations.  Take the finished  *)
(* invocations in the order of their storage calls and run them one at a   *)
(* time from the empty table, each with its own request, the uuid and the  *)
(* clock readings it drew and the value its storage call raised, if any:   *)
(* every response and the table at the end are those of the interleaved    *)
(* run.  An invocation without a storage call is answered as it would be   *)
(* against any table and leaves the table alone.                           *)
(***************************************************************************)
\* What invocation i, run alone against table with uuid u and clock readings
\* t and t2 (before and after its storage call), answers and leaves behind.
Alone(i, table, u, t, t2) ==
    LET r == lambdaHandler(inv[i].event, u, t) IN
    IF r.kind \in {"put", "get"} /\ inv[i].raised # NoError
    THEN [ok |-> TRUE, table |-> table,
          response |-> lambdaHandlerCatch(StorageCatch(inv[i].raised, t2, 0), t2).response]
    ELSE IF r.kind = "put"
    THEN IF StorageAccepts(r.item)
         THEN [ok |-> TRUE, table |-> Extend(table, r.item.o[K_id].s, r.item),
               response |-> createSuccessResponse(CREATED, r.item)]
         ELSE [ok |-> FALSE, table |-> table, response |-> UNDEFINED]
    ELSE IF r.kind = "get"
    THEN [ok |-> TRUE, table |-> table,
          response |-> IF r.key.s \in DOMAIN table
                       THEN createSuccessResponse(OK, table[r.key.s])
                       ELSE createErrorResponse(NOT_FOUND, "Item not found", t2)]
    ELSE [ok |-> TRUE, table |-> table, response |-> r.response]

\* The runs of i alone that end with the response i gave.
Matching(i, table) ==
    {o \in {Alone(i, table, UUID(n), t, t2) :
                n \in 1..(uuidCount + 1), t \in inv[i].startedAt..now, t2 \in inv[i].startedAt..now} :
        o.ok /\ o.response = inv[i].response}

\* The invocation whose storage call was the n-th to complete.
ByOrder(n) == CHOOSE i \in Invocations : Done(i) /\ inv[i].order = n

\* The table after the first n of them ran one at a time.
RECURSIVE SerialStore(_)
SerialStore(n) ==
    IF n = 0 THEN EmptyProps
    ELSE LET m == Matching(ByOrder(n), SerialStore(n - 1)) IN
         IF m = {} THEN SerialStore(n - 1) ELSE (CHOOSE o \in m : TRUE).table

C25_Serial ==
    /\ \A n \in 1..callCount : Matching(ByOrder(n), SerialStore(n - 1)) # {}
    /\ store = SerialStore(callCount)
    /\ \A i \in Invocations : Done(i) /\ inv[i].calls = 0 =>
          /\ \E o \in Matching(i, EmptyProps) : o.table = EmptyProps
          /\ \E o \in Matching(i, store) : o.table = store

\* A fetch that started after a create for its id had started, and whose get
\* completed before that create's put, was answered 404; the create was then
\* answered 201.
C25_Witness ==
    /\ Method(1) = "POST" /\ Created(1)
    /\ Method(2) = "GET" /\ IssuedGet(2) /\ inv[2].key.s = PutKey(1)
    /\ Before(2, 1)
    /\ Failed(2, NOT_FOUND, "Item not found")
    /\ store = SerialStore(callCount)

(***************************************************************************)
(* C26: provided every storage call issued ends, by succeeding or by       *)
(* raising, every invocation that has started reaches its outcome.  An     *)
(* invocation that issues no storage call (validation failure, unsupported *)
(* method, an exception before the call) has its outcome as soon as it has *)
(* run, and an invocation waiting on storage ends only when its storage    *)
(* call ends: the handler has no timeout of its own.                       *)
(***************************************************************************)
C26_Returns ==
    /\ \A i \in Invocations : Started(i) ~> Done(i)
    /\ [](\A i \in Invocations : Started(i) /\ inv[i].calls = 0 => Done(i))
    /\ [][\A i \in Invocations :
              inv[i].pc \in {"awaitPut", "awaitGet"} /\ inv'[i] # inv[i] =>
                  /\ inv'[i].pc = "done"
                  /\ callCount' = callCount + 1
                  /\ inv'[i].order = callCount']_vars

\* One invocation waited for a storage call that raised an unclassified
\* error and the other returned without a storage call; both have ended.
C26_Witness ==
    /\ Done(1) /\ inv[1].calls = 1 /\ inv[1].raised = ErrorObject("ValidationException")
    /\ Done(2) /\ inv[2].calls = 0 /\ Status(2) = BAD_REQUEST

(***************************************************************************)
(* C27: the table changes only when the put of a create succeeds, a create *)
(* whose body and id passed validation, and then only at the key equal to  *)
(* the id of that create's record, which becomes the record stored there.  *)
(* A step of any other invocation (a fetch with any outcome, a request     *)
(* ending in 400 or 405, a create whose put raises) leaves the table as it *)
(* is.                                                                     *)
(***************************************************************************)
C27_Frame ==
    [][/\ store' # store =>
            \E c \in Invocations :
                /\ PutApplied(c)
                /\ Method(c) = "POST"
                /\ CreatePasses(c)
                /\ DOMAIN store' = DOMAIN store \cup {PutKey(c)}
                /\ store'[PutKey(c)] = inv[c].item
                /\ \A k \in DOMAIN store \ {PutKey(c)} : store'[k] = store[k]
       /\ \A i \in Invocations :
            /\ inv'[i] # inv[i]
            /\ ~(inv[i].pc = "awaitPut" /\ inv'[i].response.statusCode = CREATED)
            => store' = store]_vars

\* After a create stored a record, a fetch of it and nothing else happened,
\* and the table holds that record alone.
C27_Witness ==
    /\ Created(1)
    /\ Fetched(2)
    /\ Before(1, 2)
    /\ DOMAIN store = {PutKey(1)}
    /\ store[PutKey(1)] = inv[1].item

C29_PrimitiveBody ==
    \A i \in Invocations :
        Started(i) /\ Method(i) = "POST" /\ Parses(i) /\ Sent(i).t \in {"bool", "num"} =>
            /\ Failed(i, BAD_REQUEST, "Request body cannot be empty")
            /\ inv[i].calls = 0
            /\ ~IssuedPut(i)
            /\ inv[i].uuids = 0

\* The body 42 was answered 400 "Request body cannot be empty".
C29_Witness ==
    \E i \in Invocations :
        /\ Method(i) = "POST"
        /\ inv[i].event.body = Body(N(42))
        /\ Failed(i, BAD_REQUEST, "Request body cannot be empty")
        /\ inv[i].calls = 0
====
